---- MODULE Spec2Model ----
(***************************************************************************)
(* Model of hotel_management_system.py: the Room record, the               *)
(* HotelManagementSystem store (the in-memory room list, the primary file  *)
(* and the backup files it writes) and its operations.                     *)
(*                                                                         *)
(* A Python str is modelled as a sequence of one-character strings, so     *)
(* that joining, splitting and stripping are computed character by         *)
(* character, as save_data and load_data do.                               *)
(***************************************************************************)
EXTENDS Integers, Sequences, FiniteSets, TLC

VARIABLES
    rooms,      \* self.rooms: sequence of Room records
    file,       \* content of the primary file LHMS_764708175.txt
    backups,    \* the backup files: timestamp (seconds) -> content
    now,        \* the wall clock, in seconds (datetime.now())
    last        \* the call that was made last and what it reported

vars == <<rooms, file, backups, now, last>>

----------------------------------------------------------------------------
(* Bounds of the model. *)

MaxRooms == 2
MaxPartialWrite == 1
MaxLoadRooms == 2
MaxFileLines == 3
MaxClock == 1

----------------------------------------------------------------------------
(* Strings. *)

EmptyStr == <<>>
PIPE == "|"
COMMA == ","
NEWLINE == "\n"
SPACE == " "

Whitespace == {SPACE, NEWLINE}

TrueStr == <<"T", "r", "u", "e">>
FalseStr == <<"F", "a", "l", "s", "e">>

\* str(bool), as the f-string of save_data renders room.is_allocated
BoolStr(b) == IF b THEN TrueStr ELSE FalseStr

Positions(s, c) == {i \in 1..Len(s) : s[i] = c}

SetMin(S) == CHOOSE x \in S : \A y \in S : x <= y

\* sep.join(parts)
RECURSIVE Join(_, _)
Join(parts, sep) ==
    IF parts = <<>> THEN EmptyStr
    ELSE IF Len(parts) = 1 THEN parts[1]
    ELSE parts[1] \o <<sep>> \o Join(Tail(parts), sep)

\* s.split(sep): always at least one part, the empty string splits to [""]
RECURSIVE Split(_, _)
Split(s, sep) ==
    IF Positions(s, sep) = {} THEN <<s>>
    ELSE LET i == SetMin(Positions(s, sep))
         IN  <<SubSeq(s, 1, i - 1)>> \o Split(SubSeq(s, i + 1, Len(s)), sep)

\* s.lstrip(): leading whitespace removed
RECURSIVE LStrip(_)
LStrip(s) ==
    IF s # EmptyStr /\ Head(s) \in Whitespace THEN LStrip(Tail(s)) ELSE s

\* s.rstrip(): trailing whitespace removed
RECURSIVE RStrip(_)
RStrip(s) ==
    IF s # EmptyStr /\ s[Len(s)] \in Whitespace
    THEN RStrip(SubSeq(s, 1, Len(s) - 1))
    ELSE s

\* s.strip(): leading and trailing whitespace removed
Strip(s) == RStrip(LStrip(s))

\* file.readlines(): lines keep their newline, the last one may lack it
RECURSIVE ReadLines(_)
ReadLines(data) ==
    IF data = EmptyStr THEN <<>>
    ELSE IF Positions(data, NEWLINE) = {} THEN <<data>>
    ELSE LET i == SetMin(Positions(data, NEWLINE))
         IN  <<SubSeq(data, 1, i)>> \o ReadLines(SubSeq(data, i + 1, Len(data)))

----------------------------------------------------------------------------
(* Room. *)

Room(room_number, features) ==
    [room_number   |-> room_number,
     features      |-> features,
     is_allocated  |-> FALSE,
     customer_name |-> EmptyStr]

----------------------------------------------------------------------------
(* Persistence: the text format of save_data and load_data. *)

\* the line save_data writes for one room
SerializeRoom(room) ==
    room.room_number \o <<PIPE>> \o Join(room.features, COMMA) \o <<PIPE>>
        \o BoolStr(room.is_allocated) \o <<PIPE>> \o room.customer_name
        \o <<NEWLINE>>

\* everything save_data writes for a room list
RECURSIVE Serialize(_)
Serialize(rms) ==
    IF rms = <<>> THEN EmptyStr
    ELSE SerializeRoom(Head(rms)) \o Serialize(Tail(rms))

\* outcome of the open/write of a file: ok, open() raised, or write raised
\* after n characters reached the file
IoOk == [kind |-> "ok", n |-> 0]
IoOpenFails == [kind |-> "open", n |-> 0]
IoWriteFails(n) == [kind |-> "write", n |-> n]

IoOutcomes ==
    {IoOk, IoOpenFails} \cup {IoWriteFails(n) : n \in 0..MaxPartialWrite}

\* the file opened in append mode: what was there stays
WriteFile_appends(old, data, io) == old \o data

\* content of a file after open(name, "w") and a write of data, given its
\* content before and the outcome of the I/O
WriteFile(old, data, io) ==
    CASE io.kind = "ok"    -> data
      [] io.kind = "open"  -> old
      [] io.kind = "write" ->
            SubSeq(data, 1, IF io.n < Len(data) THEN io.n ELSE Len(data))

\* only the allocated rooms are written
save_data_allocated_only(rms, old, io) ==
    WriteFile(old, Serialize(SelectSeq(rms, LAMBDA room : room.is_allocated)), io)

\* the file is opened in append mode
save_data_appends(rms, old, io) == old \o Serialize(rms)

\* content of the primary file after save_data
save_data(rms, old, io) == WriteFile(old, Serialize(rms), io)

\* the body of the loop of load_data for one line: the room, or the
\* IndexError of a line with fewer than four parts
ParseLine(line) ==
    LET parts == Split(Strip(line), PIPE)
    IN  IF Len(parts) < 4
        THEN [ok |-> FALSE, room |-> Room(EmptyStr, <<>>)]
        ELSE [ok   |-> TRUE,
              room |-> [room_number   |-> parts[1],
                        features      |-> Split(parts[2], COMMA),
                        is_allocated  |-> (parts[3] = TrueStr),
                        customer_name |-> parts[4]]]

\* the IndexError is caught inside the loop: a bad line is passed over
RECURSIVE LoadLines_skips_bad(_, _)
LoadLines_skips_bad(lines, acc) ==
    IF lines = <<>> THEN [rooms |-> acc, error |-> FALSE]
    ELSE LET p    == ParseLine(Head(lines))
             rest == LoadLines_skips_bad(Tail(lines),
                                         IF p.ok THEN Append(acc, p.room) ELSE acc)
         IN  [rooms |-> rest.rooms, error |-> rest.error \/ ~p.ok]

\* the loop of load_data over the lines read: rooms are appended until a
\* line raises, which ends the loop
RECURSIVE LoadLines(_, _)
LoadLines(lines, acc) ==
    IF lines = <<>> THEN [rooms |-> acc, error |-> FALSE]
    ELSE LET p == ParseLine(Head(lines))
         IN  IF p.ok THEN LoadLines(Tail(lines), Append(acc, p.room))
             ELSE [rooms |-> acc, error |-> TRUE]

\* load_data: the rooms of the file appended to the rooms already held
load_data(rms, data) == LoadLines(ReadLines(data), rms)

----------------------------------------------------------------------------
(* What a call reports: the operation, its arguments, the message printed,  *)
(* whether it called save_data, whether an IOError was caught, how many      *)
(* rooms the store held when the call was made, whether the call before it  *)
(* was backup_file, and whether it is a save made right after a save.       *)

Report(op, room_number, customer_name, msg, saved, io_error) ==
    [op             |-> op,
     room_number    |-> room_number,
     customer_name  |-> customer_name,
     msg            |-> msg,
     saved          |-> saved,
     io_error       |-> io_error,
     len_before     |-> Len(rooms),
     follows_backup |-> (last.op = "backup_file"),
     resave         |-> (/\ op = "save_room_allocation_to_file"
                         /\ last.op = "save_room_allocation_to_file")]

\* the first of the rooms (indices) a loop's test holds of, 0 when there is
\* none
FirstIndex(hits) == IF hits = {} THEN 0 ELSE SetMin(hits)

\* the rooms with the number
WithNumber(rms, room_number) ==
    {i \in 1..Len(rms) : rms[i].room_number = room_number}

----------------------------------------------------------------------------
(* The effect of each operation on the room list: the list afterwards, the *)
(* message printed and whether save_data is called.                        *)

\* the room is appended before the type of features is looked at
add_room_result_appends_first(rms, room_number, features) ==
    [rooms |-> Append(rms, Room(room_number, features.items)),
     msg   |-> IF features.is_list THEN "added" ELSE "TypeError",
     save  |-> features.is_list]

\* add_room: features is the argument as passed, a list or something else
add_room_result(rms, room_number, features) ==
    IF ~features.is_list
    THEN [rooms |-> rms, msg |-> "TypeError", save |-> FALSE]
    ELSE [rooms |-> Append(rms, Room(room_number, features.items)),
          msg   |-> "added",
          save  |-> TRUE]

\* only the first room with the number is removed
delete_room_result_first_only(rms, room_number) ==
    LET i == FirstIndex(WithNumber(rms, room_number))
    IN  [rooms |-> IF i = 0 THEN rms
                   ELSE SubSeq(rms, 1, i - 1) \o SubSeq(rms, i + 1, Len(rms)),
         msg   |-> "deleted",
         save  |-> TRUE]

delete_room_result(rms, room_number) ==
    [rooms |-> SelectSeq(rms, LAMBDA room : room.room_number # room_number),
     msg   |-> "deleted",
     save  |-> TRUE]

\* the room is given to the new customer whether or not it is allocated
allocate_room_result_overwrites(rms, room_number, customer_name) ==
    LET i == FirstIndex(WithNumber(rms, room_number))
    IN  IF i = 0
        THEN [rooms |-> rms, msg |-> "not found", save |-> FALSE]
        ELSE [rooms |-> [rms EXCEPT ![i].is_allocated = TRUE,
                                    ![i].customer_name = customer_name],
              msg   |-> "allocated",
              save  |-> TRUE]

\* the room is allocated in memory and save_data is not called
allocate_room_result_no_save(rms, room_number, customer_name) ==
    LET i == FirstIndex(WithNumber(rms, room_number))
    IN  IF i = 0
        THEN [rooms |-> rms, msg |-> "not found", save |-> FALSE]
        ELSE IF ~rms[i].is_allocated
        THEN [rooms |-> [rms EXCEPT ![i].is_allocated = TRUE,
                                    ![i].customer_name = customer_name],
              msg   |-> "allocated",
              save  |-> FALSE]
        ELSE [rooms |-> rms, msg |-> "already allocated", save |-> FALSE]

\* the first room with the number that is free is allocated
allocate_room_result_first_free(rms, room_number, customer_name) ==
    LET i == FirstIndex({k \in WithNumber(rms, room_number) :
                             ~rms[k].is_allocated})
    IN  IF WithNumber(rms, room_number) = {}
        THEN [rooms |-> rms, msg |-> "not found", save |-> FALSE]
        ELSE IF i # 0
        THEN [rooms |-> [rms EXCEPT ![i].is_allocated = TRUE,
                                    ![i].customer_name = customer_name],
              msg   |-> "allocated",
              save  |-> TRUE]
        ELSE [rooms |-> rms, msg |-> "already allocated", save |-> FALSE]

allocate_room_result(rms, room_number, customer_name) ==
    LET i == FirstIndex(WithNumber(rms, room_number))
    IN  IF i = 0
        THEN [rooms |-> rms, msg |-> "not found", save |-> FALSE]
        ELSE IF ~rms[i].is_allocated
        THEN [rooms |-> [rms EXCEPT ![i].is_allocated = TRUE,
                                    ![i].customer_name = customer_name],
              msg   |-> "allocated",
              save  |-> TRUE]
        ELSE [rooms |-> rms, msg |-> "already allocated", save |-> FALSE]

\* the first room with the number is billed, allocated or not
bill_and_deallocate_result_any_match(rms, room_number) ==
    LET i == FirstIndex(WithNumber(rms, room_number))
    IN  IF i = 0
        THEN [rooms |-> rms, msg |-> "not found or not allocated", save |-> FALSE]
        ELSE [rooms |-> [rms EXCEPT ![i].is_allocated = FALSE,
                                    ![i].customer_name = EmptyStr],
              msg   |-> "billed",
              save  |-> TRUE]

\* the loop does not return: every allocated room with the number is billed
bill_and_deallocate_result_all_matches(rms, room_number) ==
    LET hits == {k \in WithNumber(rms, room_number) : rms[k].is_allocated}
    IN  IF hits = {}
        THEN [rooms |-> rms, msg |-> "not found or not allocated", save |-> FALSE]
        ELSE [rooms |-> [k \in 1..Len(rms) |->
                            IF k \in hits
                            THEN [rms[k] EXCEPT !.is_allocated = FALSE,
                                                !.customer_name = EmptyStr]
                            ELSE rms[k]],
              msg   |-> "billed",
              save  |-> TRUE]

\* the billed room is removed from the store
bill_and_deallocate_result_removes(rms, room_number) ==
    LET i == FirstIndex({k \in WithNumber(rms, room_number) :
                             rms[k].is_allocated})
    IN  IF i = 0
        THEN [rooms |-> rms, msg |-> "not found or not allocated", save |-> FALSE]
        ELSE [rooms |-> SubSeq(rms, 1, i - 1) \o SubSeq(rms, i + 1, Len(rms)),
              msg   |-> "billed",
              save  |-> TRUE]

bill_and_deallocate_result(rms, room_number) ==
    LET i == FirstIndex({k \in WithNumber(rms, room_number) :
                             rms[k].is_allocated})
    IN  IF i = 0
        THEN [rooms |-> rms, msg |-> "not found or not allocated", save |-> FALSE]
        ELSE [rooms |-> [rms EXCEPT ![i].is_allocated = FALSE,
                                    ![i].customer_name = EmptyStr],
              msg   |-> "billed",
              save  |-> TRUE]

\* a mutating operation as a step of the store: the list is changed first,
\* then save_data runs, which catches its own IOError
Mutate(op, room_number, customer_name, result, io) ==
    /\ rooms' = result.rooms
    /\ file' = IF result.save THEN save_data(result.rooms, file, io) ELSE file
    /\ last' = Report(op, room_number, customer_name, result.msg, result.save,
                      result.save /\ io.kind # "ok")
    /\ UNCHANGED <<backups, now>>

----------------------------------------------------------------------------
(* Operations. *)

add_room(room_number, features, io) ==
    /\ features.is_list => Len(rooms) < MaxRooms
    /\ Mutate("add_room", room_number, EmptyStr,
              add_room_result(rooms, room_number, features), io)

delete_room(room_number, io) ==
    Mutate("delete_room", room_number, EmptyStr,
           delete_room_result(rooms, room_number), io)

allocate_room(room_number, customer_name, io) ==
    Mutate("allocate_room", room_number, customer_name,
           allocate_room_result(rooms, room_number, customer_name), io)

bill_and_deallocate(room_number, io) ==
    Mutate("bill_and_deallocate", room_number, EmptyStr,
           bill_and_deallocate_result(rooms, room_number), io)

save_room_allocation_to_file(io) ==
    /\ file' = save_data(rooms, file, io)
    /\ last' = Report("save_room_allocation_to_file", EmptyStr, EmptyStr,
                      "saved", TRUE, io.kind # "ok")
    /\ UNCHANGED <<rooms, backups, now>>

display_room_details ==
    /\ last' = Report("display_room_details", EmptyStr, EmptyStr,
                      "displayed", FALSE, FALSE)
    /\ UNCHANGED <<rooms, file, backups, now>>

display_room_allocation_details ==
    /\ last' = Report("display_room_allocation_details", EmptyStr, EmptyStr,
                      "displayed", FALSE, FALSE)
    /\ UNCHANGED <<rooms, file, backups, now>>

show_room_allocation_from_file ==
    /\ last' = Report("show_room_allocation_from_file", EmptyStr, EmptyStr,
                      "displayed", FALSE, FALSE)
    /\ UNCHANGED <<rooms, file, backups, now>>

\* no step of backup_file fails
NoFault == [step |-> "none", io |-> IoOk]

Faults ==
    {NoFault, [step |-> "read", io |-> IoOpenFails]}
        \cup {[step |-> s, io |-> io] :
                s \in {"backup", "clear"}, io \in IoOutcomes \ {IoOk}}

\* the primary file is read after it was cleared: the backup is empty
backup_written_after_clear(bks, t, data, io) == (t :> EmptyStr) @@ bks

\* the backup files after backup_file wrote data under the name of this
\* second
backup_written(bks, t, data, io) ==
    IF io.kind = "open" THEN bks
    ELSE (t :> WriteFile(EmptyStr, data, io)) @@ bks

\* backup_file: read the primary file, write the backup file named after the
\* current second, clear the primary file; an IOError ends it where it is
backup_file(fault) ==
    LET read_ok   == fault.step # "read"
        io_backup == IF fault.step = "backup" THEN fault.io ELSE IoOk
        io_clear  == IF fault.step = "clear" THEN fault.io ELSE IoOk
        data      == file
    IN  /\ backups' = IF read_ok
                      THEN backup_written(backups, now, data, io_backup)
                      ELSE backups
        /\ file' = IF read_ok /\ io_backup.kind = "ok"
                   THEN WriteFile(file, EmptyStr, io_clear)
                   ELSE file
        /\ last' = Report("backup_file", EmptyStr, EmptyStr,
                          IF fault.step = "none" THEN "backup created"
                          ELSE "IOError",
                          FALSE, fault.step # "none")
        /\ UNCHANGED <<rooms, now>>

\* a new HotelManagementSystem is constructed over the files as they are:
\* the primary file exists, so ensure_file_exists leaves it, and load_data
\* fills the empty list
construct ==
    LET loaded == load_data(<<>>, file)
    IN  /\ rooms' = loaded.rooms
        /\ last' = Report("construct", EmptyStr, EmptyStr,
                          IF loaded.error THEN "IndexError" ELSE "loaded",
                          FALSE, FALSE)
        /\ UNCHANGED <<file, backups, now>>

----------------------------------------------------------------------------
(* Inputs. *)

Str1 == <<"1">>
Str2 == <<"2">>
StrA == <<"A">>
StrB == <<"B">>
StrW == <<"w">>

RoomNumbers == {Str1, Str2}
CustomerNames == {EmptyStr, StrA, StrB}

ListArg(items) == [is_list |-> TRUE, items |-> items]
\* a features argument that is not a list (a str, None, ...)
NotAList == [is_list |-> FALSE, items |-> <<>>]

FeatureArgs == {ListArg(<<StrW>>), NotAList}

----------------------------------------------------------------------------
(* The store from a fresh start, with no I/O failure. *)

NoCall == [op |-> "none", room_number |-> EmptyStr, customer_name |-> EmptyStr,
           msg |-> "", saved |-> FALSE, io_error |-> FALSE, len_before |-> 0,
           follows_backup |-> FALSE, resave |-> FALSE]

Init ==
    /\ rooms = <<>>
    /\ file = EmptyStr
    /\ backups = <<>>
    /\ now = 0
    /\ last = NoCall

Next ==
    \/ \E n \in RoomNumbers, f \in FeatureArgs : add_room(n, f, IoOk)
    \/ \E n \in RoomNumbers : delete_room(n, IoOk)
    \/ \E n \in RoomNumbers, c \in CustomerNames : allocate_room(n, c, IoOk)
    \/ \E n \in RoomNumbers : bill_and_deallocate(n, IoOk)
    \/ save_room_allocation_to_file(IoOk)
    \/ display_room_details
    \/ display_room_allocation_details
    \/ show_room_allocation_from_file
    \/ backup_file(NoFault)

Spec == Init /\ [][Next]_vars

----------------------------------------------------------------------------
(* The store when the writes of save_data may fail. *)

NextIO ==
    \/ \E n \in RoomNumbers, f \in FeatureArgs, io \in IoOutcomes :
           add_room(n, f, io)
    \/ \E n \in RoomNumbers, io \in IoOutcomes : delete_room(n, io)
    \/ \E n \in RoomNumbers, c \in CustomerNames, io \in IoOutcomes :
           allocate_room(n, c, io)
    \/ \E n \in RoomNumbers, io \in IoOutcomes : bill_and_deallocate(n, io)
    \/ \E io \in IoOutcomes : save_room_allocation_to_file(io)

SpecIO == Init /\ [][NextIO]_vars

----------------------------------------------------------------------------
(* Saving a room list and constructing a new store from the file. The room *)
(* lists are those add_room and allocate_room can build from any strings:  *)
(* numbers, features and names with and without whitespace and delimiters, *)
(* feature lists of any length.                                            *)

LoadNumbers == {Str1, <<SPACE, "1">>, <<"1", PIPE>>}
LoadFeatures == {<<>>, <<EmptyStr>>, <<StrW>>, <<StrW, <<"w", COMMA>>>>}
LoadAllocations ==
    {[is_allocated |-> FALSE, customer_name |-> EmptyStr],
     [is_allocated |-> TRUE, customer_name |-> StrA],
     [is_allocated |-> TRUE, customer_name |-> <<"A", SPACE>>]}

LoadRooms ==
    {[room_number   |-> n,
      features      |-> f,
      is_allocated  |-> a.is_allocated,
      customer_name |-> a.customer_name] :
        n \in LoadNumbers, f \in LoadFeatures, a \in LoadAllocations}

RoomLists(k) == UNION {[1..m -> LoadRooms] : m \in 0..k}

InitLoad ==
    /\ rooms \in RoomLists(MaxLoadRooms)
    /\ file = EmptyStr
    /\ backups = <<>>
    /\ now = 0
    /\ last = NoCall

NextLoad ==
    \/ save_room_allocation_to_file(IoOk)
    \/ construct

SpecLoad == InitLoad /\ [][NextLoad]_vars

----------------------------------------------------------------------------
(* A store constructed over a primary file left by earlier runs: records of *)
(* free and allocated rooms, duplicates of a number in any order, and lines *)
(* with fewer than four fields.                                             *)

StrX == <<"x">>

LineFree == SerializeRoom(Room(Str1, <<StrW>>))
LineTaken ==
    SerializeRoom([Room(Str1, <<StrX>>) EXCEPT !.is_allocated = TRUE,
                                               !.customer_name = StrA])
LineOther ==
    SerializeRoom([Room(Str2, <<StrW, StrX>>) EXCEPT !.is_allocated = TRUE,
                                                     !.customer_name = StrB])
LineShort == Str2 \o <<PIPE>> \o StrW \o <<NEWLINE>>

FileLines == {LineFree, LineTaken, LineOther, LineShort}

RECURSIVE Concat(_)
Concat(lines) ==
    IF lines = <<>> THEN EmptyStr ELSE Head(lines) \o Concat(Tail(lines))

Files == {Concat(ls) : ls \in UNION {[1..m -> FileLines] : m \in 0..MaxFileLines}}

InitFile ==
    /\ file \in Files
    /\ rooms = load_data(<<>>, file).rooms
    /\ backups = <<>>
    /\ now = 0
    /\ last = NoCall

NextFile ==
    \/ construct
    \/ \E n \in RoomNumbers : bill_and_deallocate(n, IoOk)
    \/ save_room_allocation_to_file(IoOk)
    \/ backup_file(NoFault)

SpecFile == InitFile /\ [][NextFile]_vars

----------------------------------------------------------------------------
(* The store while the clock runs: calls of backup_file fall in the same *)
(* second or in later ones. The name of a backup file has the second of  *)
(* the call and nothing finer.                                           *)

Tick ==
    /\ now < MaxClock
    /\ now' = now + 1
    /\ UNCHANGED <<rooms, file, backups, last>>

NextClock ==
    \/ add_room(Str1, ListArg(<<StrW>>), IoOk)
    \/ delete_room(Str1, IoOk)
    \/ \E c \in {StrA, StrB} : allocate_room(Str1, c, IoOk)
    \/ save_room_allocation_to_file(IoOk)
    \/ backup_file(NoFault)
    \/ Tick

SpecClock == Init /\ [][NextClock]_vars

----------------------------------------------------------------------------
(* Every operation of the menu on a store constructed over a primary file *)
(* left by earlier runs, whose rooms differ in number and in features.    *)

MenuFiles ==
    {EmptyStr,
     Concat(<<LineFree, LineOther>>),
     Concat(<<LineFree, LineOther, LineTaken>>)}

InitMenu ==
    /\ file \in MenuFiles
    /\ rooms = load_data(<<>>, file).rooms
    /\ backups = <<>>
    /\ now = 0
    /\ last = NoCall

NextMenu ==
    \/ \E n \in RoomNumbers : add_room(n, ListArg(<<StrX>>), IoOk)
    \/ \E n \in RoomNumbers : delete_room(n, IoOk)
    \/ \E n \in RoomNumbers : allocate_room(n, StrA, IoOk)
    \/ \E n \in RoomNumbers : bill_and_deallocate(n, IoOk)
    \/ save_room_allocation_to_file(IoOk)
    \/ display_room_details
    \/ display_room_allocation_details
    \/ show_room_allocation_from_file
    \/ backup_file(NoFault)

SpecMenu == InitMenu /\ [][NextMenu]_vars

----------------------------------------------------------------------------
(* Properties. *)

MutatingOps == {"add_room", "delete_room", "allocate_room", "bill_and_deallocate"}

\* the file holds one line per room, in store order, each the record of its
\* room, and nothing else
FileHolds(data, rms) ==
    ReadLines(data) = [k \in 1..Len(rms) |-> SerializeRoom(rms[k])]

\* i is the first room of rms with the number
IsFirstWithNumber(rms, i, room_number) ==
    /\ i \in 1..Len(rms)
    /\ rms[i].room_number = room_number
    /\ \A j \in 1..(i - 1) : rms[j].room_number # room_number

NoDelimiter(str) ==
    \A i \in 1..Len(str) : str[i] \notin {PIPE, COMMA, NEWLINE}

WellFormed(room) ==
    /\ NoDelimiter(room.room_number)
    /\ NoDelimiter(room.customer_name)
    /\ \A k \in 1..Len(room.features) : NoDelimiter(room.features[k])

\* C1: in every state reached by add_room, allocate_room and
\* bill_and_deallocate calls with any numbers and names, the empty name
\* included, every room is allocated with a non-empty customer_name or
\* unallocated with an empty one.
C1_AllocationInvariant ==
    \A i \in 1..Len(rooms) :
        /\ rooms[i].is_allocated => rooms[i].customer_name # EmptyStr
        /\ ~rooms[i].is_allocated => rooms[i].customer_name = EmptyStr

\* C2: when a room list free of delimiter characters is saved and a store is
\* then constructed from the file, the store holds the same rooms, in the
\* same order, equal in all four fields (empty feature lists included).
C2_RoundTrip ==
    [][(/\ last.op = "save_room_allocation_to_file"
        /\ last'.op = "construct"
        /\ \A i \in 1..Len(rooms) : WellFormed(rooms[i]))
       => rooms' = rooms]_vars

\* C3: backup_file never changes the room list, and when the room list is
\* not empty, save_room_allocation_to_file called right after backup_file
\* leaves the primary file holding exactly the records of the rooms in
\* memory, not empty.
C3_BackupThenSave ==
    [][/\ last'.op = "backup_file" => rooms' = rooms
       /\ (/\ last.op = "backup_file"
           /\ last'.op = "save_room_allocation_to_file"
           /\ rooms # <<>>)
          => (/\ rooms' = rooms
              /\ FileHolds(file', rooms')
              /\ file' # EmptyStr)]_vars

\* a save right after a backup, with rooms in memory
C3_Witness ==
    /\ last.op = "save_room_allocation_to_file"
    /\ last.follows_backup
    /\ Len(rooms) = 2
    /\ file # EmptyStr
    /\ backups # <<>>

\* C4: allocate_room on a number whose first room is already allocated
\* reports a conflict, changes no room (the room stays with its customer)
\* and does not write the file, whatever the name passed.
C4_AllocateTwice ==
    [][(/\ last'.op = "allocate_room"
        /\ \E i \in 1..Len(rooms) :
               /\ IsFirstWithNumber(rooms, i, last'.room_number)
               /\ rooms[i].is_allocated)
       => (/\ last'.msg = "already allocated"
           /\ rooms' = rooms
           /\ file' = file
           /\ ~last'.saved)]_vars

\* room A holds is asked for under another name, while the file is empty
\* after a backup
C4_Witness ==
    /\ last.op = "allocate_room"
    /\ last.msg = "already allocated"
    /\ last.customer_name = StrB
    /\ \E i \in 1..Len(rooms) :
           /\ IsFirstWithNumber(rooms, i, last.room_number)
           /\ rooms[i].is_allocated
           /\ rooms[i].customer_name = StrA
    /\ file = EmptyStr

\* C5: when the write of the file fails in add_room, delete_room,
\* allocate_room or bill_and_deallocate, the room list is as it was before
\* the call.
C5_IoFailureLeavesRooms ==
    [][(last'.op \in MutatingOps /\ last'.io_error) => rooms' = rooms]_vars

\* the first field of a line of the file
FirstField(line) == Split(Strip(line), PIPE)[1]

\* the k-th smallest member of a set of indices
KthOf(S, k) == CHOOSE i \in S : Cardinality({j \in S : j <= i}) = k

\* C6: delete_room on a number no room has changes nothing: the room list
\* and the content of the file are the same after the call as before it.
C6_DeleteAbsentNoChange ==
    [][(/\ last'.op = "delete_room"
        /\ \A i \in 1..Len(rooms) : rooms[i].room_number # last'.room_number)
       => (rooms' = rooms /\ file' = file)]_vars

\* C7: bill_and_deallocate on a number that no allocated room has (no room
\* has it, or every room that has it is unallocated) reports not found or
\* not allocated, changes no room and does not write the file.
C7_BillUnallocated ==
    [][(/\ last'.op = "bill_and_deallocate"
        /\ \A i \in 1..Len(rooms) :
               rooms[i].room_number = last'.room_number => ~rooms[i].is_allocated)
       => (/\ last'.msg = "not found or not allocated"
           /\ rooms' = rooms
           /\ file' = file
           /\ ~last'.saved)]_vars

\* a room that is not allocated is billed, while the file is empty after a
\* backup
C7_Witness ==
    /\ last.op = "bill_and_deallocate"
    /\ last.msg = "not found or not allocated"
    /\ \E i \in 1..Len(rooms) : rooms[i].room_number = last.room_number
    /\ file = EmptyStr
    /\ ~last.saved

\* C8: delete_room(n) removes every room with number n, keeps the other
\* rooms as they were and in their order, and afterwards no room in memory
\* and no record of the file has number n.
C8_DeleteRemovesAll ==
    [][last'.op = "delete_room"
       => \A lines \in {ReadLines(file')} :
          LET n    == last'.room_number
              keep == {i \in 1..Len(rooms) : rooms[i].room_number # n}
          IN  /\ Len(rooms') = Cardinality(keep)
              /\ \A k \in 1..Len(rooms') : rooms'[k] = rooms[KthOf(keep, k)]
              /\ \A k \in 1..Len(rooms') : rooms'[k].room_number # n
              /\ \A k \in 1..Len(lines) : FirstField(lines[k]) # n
              /\ Len(lines) = Len(rooms')]_vars

\* two rooms with the same number were both removed by one delete_room
C8_Witness ==
    /\ last.op = "delete_room"
    /\ last.len_before = 2
    /\ rooms = <<>>
    /\ file = EmptyStr
    /\ last.saved

\* C9: right after a mutating call that took effect (a room added, a number
\* deleted, a room allocated, a room billed) the file holds exactly the
\* records of the rooms in memory, one line per room in store order,
\* whatever it held before.
C9_FileRewritten ==
    last.msg \in {"added", "deleted", "allocated", "billed"}
        => FileHolds(file, rooms)

\* a room is allocated right after a backup emptied the file, and the file
\* holds both rooms again
C9_Witness ==
    /\ last.op = "allocate_room"
    /\ last.msg = "allocated"
    /\ last.follows_backup
    /\ Len(rooms) = 2
    /\ Len(ReadLines(file)) = 2

\* C10: add_room with features that are not a list reports a TypeError and
\* changes neither the room list nor the file; with a list it appends
\* exactly one room at the end, unallocated and with an empty
\* customer_name, also when the number is already in the store.
C10_AddRoom ==
    [][\A n \in RoomNumbers, f \in FeatureArgs :
           (last'.op = "add_room" /\ add_room(n, f, IoOk))
           => IF ~f.is_list
              THEN /\ last'.msg = "TypeError"
                   /\ rooms' = rooms
                   /\ file' = file
              ELSE /\ Len(rooms') = Len(rooms) + 1
                   /\ SubSeq(rooms', 1, Len(rooms)) = rooms
                   /\ rooms'[Len(rooms')].room_number = n
                   /\ rooms'[Len(rooms')].features = f.items
                   /\ rooms'[Len(rooms')].is_allocated = FALSE
                   /\ rooms'[Len(rooms')].customer_name = EmptyStr]_vars

\* add_room was refused for its features while the store held a room and
\* the file was empty after a backup
C10_Witness ==
    /\ last.op = "add_room"
    /\ last.msg = "TypeError"
    /\ last.follows_backup
    /\ rooms # <<>>
    /\ file = EmptyStr

\* C11: save_room_allocation_to_file called twice in a row leaves the file
\* with the same content after the second call as after the first.
C11_SaveIdempotent ==
    [][(/\ last.op = "save_room_allocation_to_file"
        /\ last'.op = "save_room_allocation_to_file")
       => file' = file]_vars

\* a second save in a row, of a store that holds two rooms
C11_Witness ==
    /\ last.op = "save_room_allocation_to_file"
    /\ last.resave
    /\ Len(rooms) = 2
    /\ Len(ReadLines(file)) = 2

\* C12: allocate_room(n, c) looks at and changes only the first room with
\* number n: when that room is allocated the call reports a conflict and
\* changes nothing, also when a later room with number n is free; no room
\* after the first with number n, and no room with another number, is ever
\* changed.
C12_AllocateFirstMatch ==
    [][last'.op = "allocate_room"
       => LET n == last'.room_number
          IN  /\ Len(rooms') = Len(rooms)
              /\ \A j \in 1..Len(rooms) :
                     (\/ rooms[j].room_number # n
                      \/ \E i \in 1..(j - 1) : rooms[i].room_number = n)
                     => rooms'[j] = rooms[j]
              /\ \A i \in 1..Len(rooms) :
                     (IsFirstWithNumber(rooms, i, n) /\ rooms[i].is_allocated)
                     => (last'.msg = "already allocated" /\ rooms' = rooms)]_vars

\* a conflict is reported for a number whose first room is allocated and
\* whose second room is free
C12_Witness ==
    /\ last.op = "allocate_room"
    /\ last.msg = "already allocated"
    /\ Len(rooms) = 2
    /\ rooms[1].room_number = last.room_number
    /\ rooms[2].room_number = last.room_number
    /\ rooms[1].is_allocated
    /\ ~rooms[2].is_allocated

\* C13: bill_and_deallocate(n) acts on the first room that has number n and
\* is allocated, passing over earlier rooms with number n that are free: that
\* room becomes free with an empty customer_name, every other room (other
\* allocated rooms with number n included) stays as it was, and the file is
\* rewritten from the rooms.
C13_BillFirstAllocated ==
    [][last'.op = "bill_and_deallocate"
       => LET n == last'.room_number
              hits == {i \in 1..Len(rooms) :
                           rooms[i].room_number = n /\ rooms[i].is_allocated}
          IN  hits # {}
              => \E i \in hits :
                     /\ \A j \in hits : i <= j
                     /\ last'.msg = "billed"
                     /\ Len(rooms') = Len(rooms)
                     /\ ~rooms'[i].is_allocated
                     /\ rooms'[i].customer_name = EmptyStr
                     /\ rooms'[i].room_number = rooms[i].room_number
                     /\ rooms'[i].features = rooms[i].features
                     /\ \A j \in 1..Len(rooms) : j # i => rooms'[j] = rooms[j]
                     /\ FileHolds(file', rooms')]_vars

\* three rooms with number 1 after a billing: the first was free in the file
\* the store was constructed from, the second was billed, the third is still
\* allocated
C13_Witness ==
    /\ last.op = "bill_and_deallocate"
    /\ last.msg = "billed"
    /\ last.room_number = Str1
    /\ Len(rooms) = 3
    /\ rooms[1] = Room(Str1, <<StrW>>)
    /\ rooms[2] = Room(Str1, <<StrX>>)
    /\ rooms[3].room_number = Str1 /\ rooms[3].is_allocated
    /\ FileHolds(file, rooms)

\* C14: backup_file writes a backup file with the content the primary file
\* has when it is called, leaves the primary file empty and the room list as
\* it was; a store constructed right after backup_file holds no rooms.
C14_BackupClearsFile ==
    [][/\ last'.op = "backup_file"
          => (/\ now \in DOMAIN backups'
              /\ backups'[now] = file
              /\ file' = EmptyStr
              /\ rooms' = rooms)
       /\ (last.op = "backup_file" /\ last'.op = "construct")
          => rooms' = <<>>]_vars

\* a store that held rooms was constructed anew right after a backup: it
\* holds none, and the records are in the backup file
C14_Witness ==
    /\ last.op = "construct"
    /\ last.follows_backup
    /\ last.len_before > 0
    /\ rooms = <<>>
    /\ file = EmptyStr
    /\ \E t \in DOMAIN backups : Len(ReadLines(backups[t])) = last.len_before

\* the lines of a file that have fewer than four '|'-separated parts
ShortLines(data) ==
    {k \in 1..Len(ReadLines(data)) :
         Len(Split(Strip(ReadLines(data)[k]), PIPE)) < 4}

\* C15: when the k-th line of the file is the first with fewer than four
\* parts, constructing a store loads exactly the rooms of lines 1..k-1, in
\* file order, reports the error, and loads no line after k, well-formed or
\* not.
C15_LoadStopsAtBadLine ==
    [][last'.op = "construct"
       => LET lines == ReadLines(file)
              bad   == ShortLines(file)
          IN  bad # {}
              => \E k \in bad :
                     /\ \A j \in bad : k <= j
                     /\ last'.msg = "IndexError"
                     /\ Len(rooms') = k - 1
                     /\ \A j \in 1..(k - 1) :
                            SerializeRoom(rooms'[j]) = lines[j]]_vars

\* a store constructed from three lines, the second too short and the third
\* a well-formed record: it holds the room of the first line only
C15_Witness ==
    /\ last.op = "construct"
    /\ last.msg = "IndexError"
    /\ Len(ReadLines(file)) = 3
    /\ ShortLines(file) = {2}
    /\ ReadLines(file)[3] = LineFree
    /\ Len(rooms) = 1
    /\ SerializeRoom(rooms[1]) = ReadLines(file)[1]

\* C16: from an empty file and with no I/O failure, after any calls of
\* add_room, delete_room, allocate_room, bill_and_deallocate,
\* save_room_allocation_to_file and backup_file the primary file is empty or
\* holds exactly the records of the rooms in memory.
C16_FileEmptyOrCurrent ==
    file = EmptyStr \/ file = Serialize(rooms)

\* the file is empty while the store holds an allocated room, some calls
\* after the backup that emptied it
C16_Witness ==
    /\ file = EmptyStr
    /\ Len(rooms) = 2
    /\ rooms[1].is_allocated
    /\ last.op = "bill_and_deallocate"
    /\ ~last.follows_backup
    /\ backups # <<>>

\* C17: what backup_file copies out of the primary file is never lost: the
\* call leaves a backup file with the content the primary file had, and a
\* content held by a backup file is held by some backup file after every
\* later call, a backup_file call of the same second included.
C17_BackupContentKept ==
    [][/\ last'.op = "backup_file"
          => \E u \in DOMAIN backups' : backups'[u] = file
       /\ \A t \in DOMAIN backups :
              \E u \in DOMAIN backups' : backups'[u] = backups[t]]_vars

\* the (room_number, features) pairs of the rooms, in store order
Shape(rms) ==
    [k \in 1..Len(rms) |-> <<rms[k].room_number, rms[k].features>>]

\* C18: allocate_room, bill_and_deallocate, save_room_allocation_to_file,
\* backup_file and the display operations leave the number of rooms, their
\* order and every room's room_number and features as they were; add_room
\* leaves them or appends one pair at the end; only add_room and delete_room
\* change the sequence of pairs.
C18_ShapeFrame ==
    [][/\ last'.op \notin {"add_room", "delete_room"}
          => Shape(rooms') = Shape(rooms)
       /\ last'.op = "add_room"
          => \/ Shape(rooms') = Shape(rooms)
             \/ /\ Len(rooms') = Len(rooms) + 1
                /\ SubSeq(Shape(rooms'), 1, Len(rooms)) = Shape(rooms)
                /\ rooms'[Len(rooms')].room_number = last'.room_number]_vars

\* of three rooms that differ in number and in features the second has just
\* been billed
C18_Witness ==
    /\ last.op = "bill_and_deallocate"
    /\ last.msg = "billed"
    /\ Len(rooms) = 3
    /\ Shape(rooms) = <<<<Str1, <<StrW>>>>, <<Str2, <<StrW, StrX>>>>, <<Str1, <<StrX>>>>>>
    /\ last.room_number = Str2
    /\ ~rooms[2].is_allocated

====
